---- MODULE Spec2Model ----
(***************************************************************************)
(* A model of ndarray-stats' binned statistics (BinnedStatistic and its    *)
(* BinContent cells), n-dimensional histogram and summary statistics.      *)
(*                                                                         *)
(* The statistic type T (a Float) is modelled by exact rationals extended  *)
(* with the IEEE special values NaN, +inf and -inf: rounding is not        *)
(* modelled, the special values are.  A number is a record [k, n, d]:      *)
(*   k = "num", d > 0 : the rational n/d in lowest terms,                  *)
(*   k = "num", d = 0 : +inf (n = 1), -inf (n = -1), NaN (n = 0),          *)
(*   k = "sqrt"       : the irrational square root of the rational n/d.    *)
(***************************************************************************)
EXTENDS Integers, Sequences, FiniteSets, TLC

(***************************************************************************)
(* Bounds of the model.                                                    *)
(***************************************************************************)
\* the greatest number of samples a BinnedStatistic accepts in a run
MaxSamples == 3
\* the finite sample values are the integers 0..MaxValue
MaxValue == 2
\* the greatest number of samples a BinnedStatistic and a Histogram accept together
\* in a run that feeds both
MaxJoint == 2
\* the greatest number of rows of a batch
MaxBatch == 2
\* the greatest number of elements of a collection the summary statistics are taken of
MaxLen == 3
\* the greatest order of a central moment asked for
MaxOrder == 4
\* the greatest number of projections of an n-dimensional bin
MaxDim == 2
\* the greatest number of n-dimensional bins built in a run
MaxBins == 2
MaxChoose == 63
MaxOrdered == 3

(***************************************************************************)
(* The statistic type T.                                                   *)
(***************************************************************************)
Abs(i) == IF i < 0 THEN -i ELSE i

Sign(i) == IF i < 0 THEN -1 ELSE IF i > 0 THEN 1 ELSE 0

RECURSIVE GCD(_, _)
GCD(a, b) == IF b = 0 THEN a ELSE GCD(b, a % b)

\* the rational n/d (d /= 0) in lowest terms with a positive denominator
Ratio(n, d) ==
    LET g == GCD(Abs(n), Abs(d))
    IN  [k |-> "num", n |-> (Sign(d) * n) \div g, d |-> Abs(d) \div g]

\* T::from_usize / a literal
Num(i) == [k |-> "num", n |-> i, d |-> 1]

Zero == Num(0)

One == Num(1)

Infinity == [k |-> "num", n |-> 1, d |-> 0]

NegInfinity == [k |-> "num", n |-> -1, d |-> 0]

NaN == [k |-> "num", n |-> 0, d |-> 0]

IsNaN(a) == a.d = 0 /\ a.n = 0

IsInf(a) == a.d = 0 /\ a.n # 0

IsFinite(a) == a.k = "num" /\ a.d > 0

Neg(a) == [a EXCEPT !.n = -a.n]

Add(a, b) ==
    IF IsNaN(a) \/ IsNaN(b) THEN NaN
    ELSE IF IsInf(a) /\ IsInf(b) THEN (IF a.n = b.n THEN a ELSE NaN)
    ELSE IF IsInf(a) THEN a
    ELSE IF IsInf(b) THEN b
    ELSE Ratio(a.n * b.d + b.n * a.d, a.d * b.d)

Sub(a, b) == Add(a, Neg(b))

Mul(a, b) ==
    IF IsNaN(a) \/ IsNaN(b) THEN NaN
    ELSE IF IsInf(a) \/ IsInf(b)
         THEN (IF a.n = 0 \/ b.n = 0 THEN NaN
               ELSE IF Sign(a.n) = Sign(b.n) THEN Infinity ELSE NegInfinity)
    ELSE Ratio(a.n * b.n, a.d * b.d)

Div(a, b) ==
    IF IsNaN(a) \/ IsNaN(b) THEN NaN
    ELSE IF IsInf(a) /\ IsInf(b) THEN NaN
    ELSE IF IsInf(a) THEN (IF Sign(a.n) * Sign(b.n) < 0 THEN NegInfinity ELSE Infinity)
    ELSE IF IsInf(b) THEN Zero
    ELSE IF b.n = 0
         THEN (IF a.n = 0 THEN NaN ELSE IF a.n > 0 THEN Infinity ELSE NegInfinity)
    ELSE Ratio(a.n * b.d, a.d * b.n)

\* a % b on floats: the remainder of the division truncated towards zero, with the
\* sign of a
Rem(a, b) ==
    IF IsNaN(a) \/ IsNaN(b) THEN NaN
    ELSE IF IsInf(a) THEN NaN
    ELSE IF IsInf(b) THEN a
    ELSE IF b.n = 0 THEN NaN
    ELSE LET q == Div(a, b)
             t == Sign(q.n) * (Abs(q.n) \div q.d)
         IN  Sub(a, Mul(b, Num(t)))

\* a < b and a <= b, both false when an operand is NaN
Lt(a, b) ==
    /\ ~IsNaN(a) /\ ~IsNaN(b)
    /\ IF IsInf(a) /\ IsInf(b) THEN a.n < b.n
       ELSE IF IsInf(a) THEN a.n < 0
       ELSE IF IsInf(b) THEN b.n > 0
       ELSE a.n * b.d < b.n * a.d

Le(a, b) == ~IsNaN(a) /\ ~IsNaN(b) /\ ~Lt(b, a)

IsSquare(i) == \E r \in 0..i : r * r = i

Root(i) == CHOOSE r \in 0..i : r * r = i

Sqrt(a) ==
    IF IsNaN(a) THEN NaN
    ELSE IF IsInf(a) THEN (IF a.n > 0 THEN Infinity ELSE NaN)
    ELSE IF a.n < 0 THEN NaN
    ELSE IF IsSquare(a.n) /\ IsSquare(a.d) THEN Ratio(Root(a.n), Root(a.d))
    ELSE [k |-> "sqrt", n |-> a.n, d |-> a.d]

\* Float::min and Float::max: a NaN operand is ignored
FloatMin(a, b) == IF IsNaN(a) THEN b ELSE IF IsNaN(b) THEN a ELSE IF Lt(b, a) THEN b ELSE a

FloatMax(a, b) == IF IsNaN(a) THEN b ELSE IF IsNaN(b) THEN a ELSE IF Lt(a, b) THEN b ELSE a

\* == on T: NaN equals nothing
FloatEq(a, b) == ~IsNaN(a) /\ ~IsNaN(b) /\ a = b

\* the sample values of the model
Values == {Num(i) : i \in 0..MaxValue} \cup {NaN, Infinity, NegInfinity}

(***************************************************************************)
(* The grid: the square grid of the documentation's examples, two axes     *)
(* with the edges -1, 0, 1 (bins are left inclusive, right exclusive).     *)
(***************************************************************************)
Edges == <<-1, 0, 1>>

square_grid == <<Edges, Edges>>

\* the grid of one axis with the same edges
line_grid == <<Edges>>

\* Grid::ndim and Grid::shape
grid_ndim(grid) == Len(grid)

grid_shape(grid) == [a \in 1..Len(grid) |-> Len(grid[a]) - 1]

\* every index of an array of the grid's shape
Indices(grid) ==
    {ix \in [1..Len(grid) -> 0..(Len(Edges) - 1)] :
        \A a \in 1..Len(grid) : ix[a] < grid_shape(grid)[a]}

\* Bins::index_of: the bin of one axis that holds v: <<i>>, or <<>> when there is none
bins_index_of(edges, v) ==
    IF \E i \in 1..(Len(edges) - 1) : edges[i] <= v /\ v < edges[i + 1]
    THEN <<(CHOOSE i \in 1..(Len(edges) - 1) : edges[i] <= v /\ v < edges[i + 1]) - 1>>
    ELSE <<>>

\* Grid::index_of: panics on a sample of the wrong dimension, else the index of the
\* bin (Some) or None
index_of(grid, sample) ==
    IF Len(sample) # grid_ndim(grid) THEN [tag |-> "panic", ix |-> <<>>]
    ELSE LET found == [a \in 1..Len(grid) |-> bins_index_of(grid[a], sample[a])]
         IN  IF \E a \in 1..Len(grid) : found[a] = <<>>
             THEN [tag |-> "None", ix |-> <<>>]
             ELSE [tag |-> "Some", ix |-> [a \in 1..Len(grid) |-> found[a][1]]]

\* the samples of the model: one in bin [0, 0], one in bin [1, 0], one whose first
\* coordinate and one whose second coordinate lies beyond the last edge, and two that
\* have not two coordinates
Samples == {<<-1, -1>>, <<0, -1>>, <<1, 0>>, <<0, 1>>, <<0>>, <<0, 0, 0>>}

(***************************************************************************)
(* BinContent.                                                             *)
(***************************************************************************)
Empty == [tag |-> "Empty"]

Value(x) == [tag |-> "Value", v |-> x]

(***************************************************************************)
(* BinnedStatistic.                                                        *)
(***************************************************************************)
VARIABLES
    binned_statistic,   \* the BinnedStatistic: its eight arrays and its grid
    call,               \* the last call of add_sample or add_observation: its sample
    result,             \* what the last add_sample returned: "Ok", "BinNotFound", "panic"
    added,              \* history: the values each bin has accepted, in order
    histogram,          \* the Histogram: its counts and its bins
    hresult,            \* what the last add_observation returned
    samples,            \* history: the samples of the add_sample calls that returned
    values,             \* history: the values of the add_sample calls that returned
    bulk,               \* the last binned_statistic call: its batch and what it returned
    binned,             \* the arrays the *_binned accessors returned
    lhs, rhs, out,      \* BinContent operands and the result of the last operation
    array,              \* the collection the summary statistics are taken of
    summary,            \* the last summary statistic asked for and what it returned
    nd,                 \* the n-dimensional bins built so far and the last constructor call
    returned            \* history: how many add_sample and add_observation calls returned Ok

\* BinnedStatistic::new
new(grid) ==
    [count              |-> [ix \in Indices(grid) |-> 0],
     number             |-> [ix \in Indices(grid) |-> Zero],
     sum                |-> [ix \in Indices(grid) |-> Zero],
     mean               |-> [ix \in Indices(grid) |-> Zero],
     variance           |-> [ix \in Indices(grid) |-> Zero],
     standard_deviation |-> [ix \in Indices(grid) |-> Zero],
     min                |-> [ix \in Indices(grid) |-> Infinity],
     max                |-> [ix \in Indices(grid) |-> NegInfinity],
     grid               |-> grid]

\* self.number[id] + T::one()
next_number_adds_value(number, value) == Add(number, value)

next_number(number, value) == Add(number, One)

\* (self.variance[id] * n1 + term1) / n
next_variance_unweighted(variance, n1, term1, n) == Div(Add(variance, term1), n)

next_variance(variance, n1, term1, n) == Div(Add(Mul(variance, n1), term1), n)

\* self.variance[id].sqrt(), of the variance just stored
next_standard_deviation_stale(old_variance, new_variance) == Sqrt(old_variance)

next_standard_deviation(old_variance, new_variance) == Sqrt(new_variance)

\* Float::min(self.min[id], value)
next_min_uses_max(min, value) == FloatMax(min, value)

next_min(min, value) == FloatMin(min, value)

\* Float::max(self.max[id], value)
next_max_is_latest(max, value) == value

next_max(max, value) == FloatMax(max, value)

\* the None arm of add_sample: Err(BinNotFound), nothing written
bin_not_found_ignored(self) == [self |-> self, ret |-> "Ok"]

bin_not_found(self) == [self |-> self, ret |-> "BinNotFound"]

\* BinnedStatistic::add_sample: the aggregator after the call and what the call returns
add_sample_sums_everywhere(self, sample, value) ==
    LET bin_index == index_of(self.grid, sample)
    IN  IF bin_index.tag = "panic" THEN [self |-> self, ret |-> "panic"]
        ELSE IF bin_index.tag = "None" THEN bin_not_found(self)
        ELSE LET id      == bin_index.ix
                 n1      == self.number[id]
                 n       == next_number(self.number[id], value)
                 delta   == Sub(value, self.mean[id])
                 delta_n == Div(delta, n)
                 term1   == Mul(Mul(delta, delta_n), n1)
                 var     == next_variance(self.variance[id], n1, term1, n)
             IN  [self |->
                    [self EXCEPT
                        !.count[id] = self.count[id] + 1,
                        !.number[id] = n,
                        !.sum = [ix \in DOMAIN self.sum |-> Add(self.sum[ix], value)],
                        !.mean[id] = Add(self.mean[id], delta_n),
                        !.variance[id] = var,
                        !.standard_deviation[id] =
                            next_standard_deviation(self.variance[id], var),
                        !.min[id] = next_min(self.min[id], value),
                        !.max[id] = next_max(self.max[id], value)],
                  ret |-> "Ok"]

add_sample(self, sample, value) ==
    LET bin_index == index_of(self.grid, sample)
    IN  IF bin_index.tag = "panic" THEN [self |-> self, ret |-> "panic"]
        ELSE IF bin_index.tag = "None" THEN bin_not_found(self)
        ELSE LET id      == bin_index.ix
                 n1      == self.number[id]
                 n       == next_number(self.number[id], value)
                 delta   == Sub(value, self.mean[id])
                 delta_n == Div(delta, n)
                 term1   == Mul(Mul(delta, delta_n), n1)
                 var     == next_variance(self.variance[id], n1, term1, n)
             IN  [self |->
                    [self EXCEPT
                        !.count[id] = self.count[id] + 1,
                        !.number[id] = n,
                        !.sum[id] = Add(self.sum[id], value),
                        !.mean[id] = Add(self.mean[id], delta_n),
                        !.variance[id] = var,
                        !.standard_deviation[id] =
                            next_standard_deviation(self.variance[id], var),
                        !.min[id] = next_min(self.min[id], value),
                        !.max[id] = next_max(self.max[id], value)],
                  ret |-> "Ok"]

\* BinnedStatistic::ndim
ndim(self) == Len(self.grid)

RECURSIVE SumOver(_, _)
SumOver(f, S) == IF S = {} THEN 0 ELSE LET x == CHOOSE y \in S : TRUE
                                        IN  f[x] + SumOver(f, S \ {x})

\* the number of samples an array of counts holds
Total(counts) == SumOver(counts, DOMAIN counts)

(***************************************************************************)
(* The *_binned accessors: one BinContent per bin, Empty where count is 0. *)
(***************************************************************************)
count_binned(self) ==
    [ix \in DOMAIN self.count |->
        IF self.count[ix] = 0 THEN Empty ELSE Value(self.count[ix])]

number_binned(self) ==
    [ix \in DOMAIN self.count |->
        IF self.count[ix] = 0 THEN Empty ELSE Value(self.number[ix])]

sum_binned(self) ==
    [ix \in DOMAIN self.count |->
        IF self.count[ix] = 0 THEN Empty ELSE Value(self.sum[ix])]

mean_binned(self) ==
    [ix \in DOMAIN self.count |->
        IF self.count[ix] = 0 THEN Empty ELSE Value(self.mean[ix])]

variance_binned(self) ==
    [ix \in DOMAIN self.count |->
        IF self.count[ix] = 0 THEN Empty ELSE Value(self.variance[ix])]

standard_deviation_binned(self) ==
    [ix \in DOMAIN self.count |->
        IF self.count[ix] = 0 THEN Empty ELSE Value(self.standard_deviation[ix])]

min_binned_by_sentinel(self) ==
    [ix \in DOMAIN self.count |->
        IF self.min[ix] = Infinity THEN Empty ELSE Value(self.min[ix])]

min_binned(self) ==
    [ix \in DOMAIN self.count |->
        IF self.count[ix] = 0 THEN Empty ELSE Value(self.min[ix])]

max_binned(self) ==
    [ix \in DOMAIN self.count |->
        IF self.count[ix] = 0 THEN Empty ELSE Value(self.max[ix])]

(***************************************************************************)
(* Bulk ingestion: BinnedStatisticExt::binned_statistic of a 2-dimensional *)
(* array of samples (one row per sample) and an array of values.           *)
(***************************************************************************)
\* Iterator::zip: pairs until the shorter side ends
zip(xs, ys) ==
    [i \in 1..(IF Len(xs) < Len(ys) THEN Len(xs) ELSE Len(ys)) |-> <<xs[i], ys[i]>>]

\* the loop `for (sample, value) in rows.zip(&values) { let _ = add_sample(..); }`:
\* what add_sample returns is dropped, a panic of add_sample ends the call
RECURSIVE for_each_stops(_, _)
for_each_stops(self, pairs) ==
    IF pairs = <<>> THEN [self |-> self, ret |-> "returned"]
    ELSE LET r == add_sample(self, Head(pairs)[1], Head(pairs)[2])
         IN  IF r.ret = "Ok" THEN for_each_stops(r.self, Tail(pairs))
             ELSE [self |-> r.self, ret |-> "returned"]

RECURSIVE for_each(_, _)
for_each(self, pairs) ==
    IF pairs = <<>> THEN [self |-> self, ret |-> "returned"]
    ELSE LET r == add_sample(self, Head(pairs)[1], Head(pairs)[2])
         IN  IF r.ret = "panic" THEN [self |-> r.self, ret |-> "panic"]
             ELSE for_each(r.self, Tail(pairs))

\* the implementation for ArrayBase<S, Ix2>: the rows of self are the samples
binned_statistic_2d(rows, grid, vals) == for_each(new(grid), zip(rows, vals))

\* the implementation for ArrayBase<S, Ix1>: each element x of self is the sample [x]
binned_statistic_1d(xs, grid, vals) ==
    for_each(new(grid), zip([i \in 1..Len(xs) |-> <<xs[i]>>], vals))

(***************************************************************************)
(* Histogram.                                                              *)
(***************************************************************************)
\* Histogram::new
histogram_new(bins) ==
    [counts |-> [ix \in Indices(bins) |-> 0], bins |-> bins]

\* Histogram::ndim
histogram_ndim(self) == Len(self.bins)

\* the assertion that opens add_observation
dimensions_match_or_longer(self, observation) == histogram_ndim(self) <= Len(observation)

dimensions_match(self, observation) == histogram_ndim(self) = Len(observation)

\* Histogram::add_observation: the histogram after the call and what the call returns
add_observation_counts_leading(self, observation) ==
    IF ~dimensions_match(self, observation) THEN [self |-> self, ret |-> "panic"]
    ELSE LET n   == Len(self.bins)
             bin == [a \in 1..n |-> bins_index_of(self.bins[a], observation[a])]
             ix  == [a \in 1..n |-> IF bin[a] = <<>> THEN 0 ELSE bin[a][1]]
         IN  [self |-> [self EXCEPT !.counts[ix] = @ + 1],
              ret  |-> IF \E a \in 1..n : bin[a] = <<>> THEN "BinNotFound" ELSE "Ok"]

add_observation(self, observation) ==
    IF ~dimensions_match(self, observation) THEN [self |-> self, ret |-> "panic"]
    ELSE LET n   == IF Len(observation) < Len(self.bins)
                    THEN Len(observation) ELSE Len(self.bins)
             bin == [a \in 1..n |-> bins_index_of(self.bins[a], observation[a])]
         IN  IF \E a \in 1..n : bin[a] = <<>>
             THEN [self |-> self, ret |-> "BinNotFound"]
             ELSE LET ix == [a \in 1..n |-> bin[a][1]]
                  IN  IF ix \notin DOMAIN self.counts
                      THEN [self |-> self, ret |-> "panic"]
                      ELSE [self |-> [self EXCEPT !.counts[ix] = @ + 1], ret |-> "Ok"]

(***************************************************************************)
(* BinContent arithmetic.                                                  *)
(***************************************************************************)
\* impl Add for BinContent
add_empty_absorbs(self, other) ==
    IF self.tag = "Empty" \/ other.tag = "Empty" THEN Empty
    ELSE Value(Add(self.v, other.v))

add(self, other) ==
    IF self.tag = "Empty" /\ other.tag = "Empty" THEN Empty
    ELSE IF self.tag = "Value" /\ other.tag = "Empty" THEN Value(self.v)
    ELSE IF self.tag = "Empty" /\ other.tag = "Value" THEN Value(other.v)
    ELSE Value(Add(self.v, other.v))

\* impl Sub for BinContent
sub_of_empty_keeps_sign(self, other) ==
    IF self.tag = "Empty" /\ other.tag = "Empty" THEN Empty
    ELSE IF self.tag = "Value" /\ other.tag = "Empty" THEN Value(self.v)
    ELSE IF self.tag = "Empty" /\ other.tag = "Value" THEN Value(other.v)
    ELSE Value(Sub(self.v, other.v))

sub(self, other) ==
    IF self.tag = "Empty" /\ other.tag = "Empty" THEN Empty
    ELSE IF self.tag = "Value" /\ other.tag = "Empty" THEN Value(self.v)
    ELSE IF self.tag = "Empty" /\ other.tag = "Value" THEN Value(Neg(other.v))
    ELSE Value(Sub(self.v, other.v))

\* impl Mul for BinContent
mul_empty_is_one(self, other) ==
    IF self.tag = "Empty" /\ other.tag = "Empty" THEN Empty
    ELSE IF self.tag = "Value" /\ other.tag = "Empty" THEN Value(self.v)
    ELSE IF self.tag = "Empty" /\ other.tag = "Value" THEN Value(other.v)
    ELSE Value(Mul(self.v, other.v))

mul(self, other) ==
    IF self.tag = "Empty" /\ other.tag = "Empty" THEN Empty
    ELSE IF self.tag = "Value" /\ other.tag = "Empty" THEN Empty
    ELSE IF self.tag = "Empty" /\ other.tag = "Value" THEN Empty
    ELSE Value(Mul(self.v, other.v))

\* impl Div for BinContent
div(self, other) ==
    IF self.tag = "Empty" /\ other.tag = "Empty" THEN Empty
    ELSE IF self.tag = "Value" /\ other.tag = "Empty" THEN Empty
    ELSE IF self.tag = "Empty" /\ other.tag = "Value" THEN Empty
    ELSE Value(Div(self.v, other.v))

\* impl Rem for BinContent
rem(self, other) ==
    IF self.tag = "Empty" /\ other.tag = "Empty" THEN Empty
    ELSE IF self.tag = "Value" /\ other.tag = "Empty" THEN Empty
    ELSE IF self.tag = "Empty" /\ other.tag = "Value" THEN Empty
    ELSE Value(Rem(self.v, other.v))

\* impl AddAssign for BinContent: the value *self holds after self += other
add_assign(self, other) ==
    IF self.tag = "Empty" /\ other.tag = "Empty" THEN Empty
    ELSE IF self.tag = "Value" /\ other.tag = "Empty" THEN Value(self.v)
    ELSE IF self.tag = "Empty" /\ other.tag = "Value" THEN Value(other.v)
    ELSE Value(Add(self.v, other.v))

\* impl SubAssign for BinContent
sub_assign_keeps_sign(self, other) ==
    IF self.tag = "Empty" /\ other.tag = "Empty" THEN Empty
    ELSE IF self.tag = "Value" /\ other.tag = "Empty" THEN Value(self.v)
    ELSE IF self.tag = "Empty" /\ other.tag = "Value" THEN Value(other.v)
    ELSE Value(Sub(self.v, other.v))

sub_assign(self, other) ==
    IF self.tag = "Empty" /\ other.tag = "Empty" THEN Empty
    ELSE IF self.tag = "Value" /\ other.tag = "Empty" THEN Value(self.v)
    ELSE IF self.tag = "Empty" /\ other.tag = "Value" THEN Value(Neg(other.v))
    ELSE Value(Sub(self.v, other.v))

\* impl MulAssign for BinContent
mul_assign(self, other) ==
    IF self.tag = "Empty" /\ other.tag = "Empty" THEN Empty
    ELSE IF self.tag = "Value" /\ other.tag = "Empty" THEN Empty
    ELSE IF self.tag = "Empty" /\ other.tag = "Value" THEN Empty
    ELSE Value(Mul(self.v, other.v))

\* impl DivAssign for BinContent
div_assign(self, other) ==
    IF self.tag = "Empty" /\ other.tag = "Empty" THEN Empty
    ELSE IF self.tag = "Value" /\ other.tag = "Empty" THEN Empty
    ELSE IF self.tag = "Empty" /\ other.tag = "Value" THEN Empty
    ELSE Value(Div(self.v, other.v))

\* impl RemAssign for BinContent
rem_assign(self, other) ==
    IF self.tag = "Empty" /\ other.tag = "Empty" THEN Empty
    ELSE IF self.tag = "Value" /\ other.tag = "Empty" THEN Empty
    ELSE IF self.tag = "Empty" /\ other.tag = "Value" THEN Empty
    ELSE Value(Rem(self.v, other.v))

\* impl Neg for BinContent
neg(self) == IF self.tag = "Empty" THEN Empty ELSE Value(Neg(self.v))

\* impl Zero for BinContent
zero == Empty

is_zero_of_payload(self) == IF self.tag = "Empty" THEN TRUE ELSE FloatEq(self.v, Zero)

is_zero(self) == IF self.tag = "Empty" THEN TRUE ELSE FALSE

\* impl One for BinContent
one == Value(One)

is_one(self) == IF self.tag = "Empty" THEN FALSE ELSE FloatEq(self.v, One)

\* BinContent::is_value, is_empty and contains
is_value(self) == IF self.tag = "Value" THEN TRUE ELSE FALSE

is_empty(self) == ~is_value(self)

contains(self, x) == IF self.tag = "Value" THEN FloatEq(x, self.v) ELSE FALSE

\* BinContent::unwrap: the payload, or a panic on Empty
unwrap_or_zero(self) ==
    IF self.tag = "Value" THEN [tag |-> "Ok", v |-> self.v]
    ELSE [tag |-> "Ok", v |-> Zero]

unwrap(self) ==
    IF self.tag = "Value" THEN [tag |-> "Ok", v |-> self.v]
    ELSE [tag |-> "panic"]

\* BinContent::unwrap_or
unwrap_or(self, default) ==
    IF self.tag = "Value" THEN [tag |-> "Ok", v |-> self.v]
    ELSE [tag |-> "Ok", v |-> default]

\* BinContent::unwrap_or_else: f is the value the closure returns; called tells
\* whether the closure ran
unwrap_or_else(self, f) ==
    IF self.tag = "Value" THEN [tag |-> "Ok", v |-> self.v, called |-> FALSE]
    ELSE [tag |-> "Ok", v |-> f, called |-> TRUE]

\* the payloads and the BinContents of the model
Payloads == {Num(i) : i \in (-MaxValue)..MaxValue}

BinContents == {Empty} \cup {Value(x) : x \in Payloads}

(***************************************************************************)
(* Summary statistics (SummaryStatisticsExt) of a collection of floats.    *)
(* Besides the rationals and the special values, the element type holds    *)
(*   k = "ln"   : ln(n/d) / r, from x.ln() and the mean of such,          *)
(*   k = "root" : the r-th root of n/d, from exp of the former,            *)
(*   k = "surd" : c * sqrt(n/d), from an odd power of a square root,       *)
(*   k = "expr" : an operation of no closed form, kept as written.         *)
(***************************************************************************)
None == [tag |-> "None"]

Some(x) == [tag |-> "Some", v |-> x]

\* x.recip()
Recip(x) == Div(One, x)

RECURSIVE IntPow(_, _)
IntPow(b, e) == IF e = 0 THEN 1 ELSE b * IntPow(b, e - 1)

\* x.powi(i), i >= 0
RECURSIVE Powi(_, _)
Powi(x, i) ==
    IF i = 0 THEN One
    ELSE IF x.k = "sqrt"
         THEN (IF i % 2 = 0 THEN Powi(Ratio(x.n, x.d), i \div 2)
               ELSE [k |-> "surd", c |-> Powi(Ratio(x.n, x.d), i \div 2),
                     n |-> x.n, d |-> x.d])
    ELSE Mul(x, Powi(x, i - 1))

\* a / b where b may be a surd (a positive irrational)
Quot(a, b) ==
    IF b.k = "num" THEN Div(a, b)
    ELSE IF IsNaN(a) \/ IsInf(a) THEN a
    ELSE IF a.n = 0 THEN Zero
    ELSE [k |-> "expr", op |-> "/", a |-> a, b |-> b]

\* x.ln()
Ln(x) ==
    IF IsNaN(x) THEN NaN
    ELSE IF IsInf(x) THEN (IF x.n > 0 THEN Infinity ELSE NaN)
    ELSE IF x.n < 0 THEN NaN
    ELSE IF x.n = 0 THEN NegInfinity
    ELSE IF x = One THEN Zero
    ELSE [k |-> "ln", n |-> x.n, d |-> x.d, r |-> 1]

\* x.exp()
Exp(x) ==
    IF x.k = "ln"
    THEN (IF x.r = 1 THEN Ratio(x.n, x.d)
          ELSE IF \E t \in 1..x.n, u \in 1..x.d :
                     IntPow(t, x.r) = x.n /\ IntPow(u, x.r) = x.d
               THEN LET t == CHOOSE t \in 1..x.n : IntPow(t, x.r) = x.n
                        u == CHOOSE u \in 1..x.d : IntPow(u, x.r) = x.d
                    IN  Ratio(t, u)
          ELSE [k |-> "root", n |-> x.n, d |-> x.d, r |-> x.r])
    ELSE IF x.k # "num" THEN [k |-> "expr", op |-> "exp", a |-> x]
    ELSE IF IsNaN(x) THEN NaN
    ELSE IF IsInf(x) THEN (IF x.n > 0 THEN Infinity ELSE Zero)
    ELSE IF x.n = 0 THEN One
    ELSE [k |-> "expr", op |-> "exp", a |-> x]

\* a + b of the element type: ln(p) + ln(q) is ln(p * q)
Plus(a, b) ==
    IF a.k = "num" /\ b.k = "num" THEN Add(a, b)
    ELSE IF a.k = "num" /\ (IsNaN(a) \/ IsInf(a)) THEN a
    ELSE IF b.k = "num" /\ (IsNaN(b) \/ IsInf(b)) THEN b
    ELSE IF a = Zero THEN b
    ELSE IF b = Zero THEN a
    ELSE IF a.k = "ln" /\ b.k = "ln" /\ a.r = 1 /\ b.r = 1
         THEN Ln(Mul(Ratio(a.n, a.d), Ratio(b.n, b.d)))
    ELSE [k |-> "expr", op |-> "+", a |-> a, b |-> b]

\* a / n of the element type, n a count
Over(a, n) ==
    IF a.k = "num" THEN Div(a, n)
    ELSE IF a.k = "ln" /\ n.n > 0 THEN [a EXCEPT !.r = a.r * n.n]
    ELSE [k |-> "expr", op |-> "/", a |-> a, b |-> n]

\* ArrayBase::sum: the fold of + from A::zero()
RECURSIVE sum(_)
sum(a) == IF a = <<>> THEN Zero ELSE Plus(sum(SubSeq(a, 1, Len(a) - 1)), a[Len(a)])

\* SummaryStatisticsExt::mean
mean_of_any(a) == Some(Over(sum(a), Num(Len(a))))

mean(a) ==
    LET n_elements == Len(a)
    IN  IF n_elements = 0 THEN None
        ELSE Some(Over(sum(a), Num(n_elements)))

\* Option::map(|x| x.recip()) and Option::map(|x| x.exp())
harmonic_mean(a) ==
    LET m == mean([i \in 1..Len(a) |-> Recip(a[i])])
    IN  IF m.tag = "None" THEN None ELSE Some(Recip(m.v))

geometric_mean(a) ==
    LET m == mean([i \in 1..Len(a) |-> Ln(a[i])])
    IN  IF m.tag = "None" THEN None ELSE Some(Exp(m.v))

\* moments: the moments about zero up to order, the 0th first
moments(a, order) ==
    LET n_elements == Num(Len(a))
    IN  [i \in 1..(order + 1) |->
            IF i = 1 THEN One
            ELSE IF i = 2 THEN Div(sum(a), n_elements)
            ELSE Div(sum([j \in 1..Len(a) |-> Powi(a[j], i - 1)]), n_elements)]

\* usize: 64 bits, kept as four limbs of 16 bits, the least significant first
usize(x) == <<x % 65536, x \div 65536, 0, 0>>

\* usize * usize for a factor m below 2^15: the limbs of the product, the least
\* significant first, followed by the carry out of the last limb
mul_limbs(a, m) ==
    LET p1 == a[1] * m
        p2 == a[2] * m + p1 \div 65536
        p3 == a[3] * m + p2 \div 65536
        p4 == a[4] * m + p3 \div 65536
    IN  <<p1 % 65536, p2 % 65536, p3 % 65536, p4 % 65536, p4 \div 65536>>

\* the product modulo 2^64, and whether it left the 64 bits
wrapping_mul(a, m) == SubSeq(mul_limbs(a, m), 1, 4)

mul_overflows(a, m) == mul_limbs(a, m)[5] # 0

\* usize / usize and usize % usize for a divisor d below 2^15, by long division from
\* the most significant limb
div_limbs(a, d) ==
    LET c4 == a[4]
        c3 == (c4 % d) * 65536 + a[3]
        c2 == (c3 % d) * 65536 + a[2]
        c1 == (c2 % d) * 65536 + a[1]
    IN  [q |-> <<c1 \div d, c2 \div d, c3 \div d, c4 \div d>>, r |-> c1 % d]

usize_div(a, d) == div_limbs(a, d).q

\* A::from_usize
from_usize(a) == Num(a[1] + 65536 * (a[2] + 65536 * (a[3] + 65536 * a[4])))

\* the loop of binomial_coefficient: result after the iterations i..k-1, and whether
\* one of its multiplications overflowed
binomial_step(n, i, acc) ==
    [v        |-> usize_div(wrapping_mul(acc.v, n - i), i + 1),
     overflow |-> acc.overflow \/ mul_overflows(acc.v, n - i)]

RECURSIVE binomial_loop(_, _, _, _)
binomial_loop(n, k, i, acc) ==
    IF i >= k THEN acc
    ELSE binomial_loop(n, k, i + 1, binomial_step(n, i, acc))

\* binomial_coefficient: n over k, a panic when k > n.  The tag "overflow" is the
\* outcome of a multiplication that overflows: a panic in a build with overflow
\* checks, the value v computed modulo 2^64 in a build without them.
binomial_coefficient(n, k) ==
    IF k > n THEN [tag |-> "panic"]
    ELSE LET k2 == IF k > n - k THEN n - k ELSE k
             r  == binomial_loop(n, k2, 0, [v |-> usize(1), overflow |-> FALSE])
         IN  [tag |-> IF r.overflow THEN "overflow" ELSE "Ok", v |-> r.v]

\* central_moment_coefficients: order is the length of moments, and coefficient k
\* (from 0) is binomial_coefficient(order, k) times the k-th moment from the end
central_moment_coefficients_swapped(shifted_moments) ==
    LET order == Len(shifted_moments)
        bc    == [i \in 1..order |-> binomial_coefficient(i - 1, order)]
    IN  IF \E i \in 1..order : bc[i].tag = "panic" THEN [tag |-> "panic"]
        ELSE [tag |-> IF \E i \in 1..order : bc[i].tag = "overflow"
                      THEN "overflow" ELSE "Ok",
              v |-> [i \in 1..order |->
                        Mul(from_usize(bc[i].v), shifted_moments[order - i + 1])]]

central_moment_coefficients(shifted_moments) ==
    LET order == Len(shifted_moments)
        bc    == [i \in 1..order |-> binomial_coefficient(order, i - 1)]
    IN  IF \E i \in 1..order : bc[i].tag = "panic" THEN [tag |-> "panic"]
        ELSE [tag |-> IF \E i \in 1..order : bc[i].tag = "overflow"
                      THEN "overflow" ELSE "Ok",
              v |-> [i \in 1..order |->
                        Mul(from_usize(bc[i].v), shifted_moments[order - i + 1])]]

\* horner_method: the coefficients ascend with the exponent
RECURSIVE horner_method_ascending(_, _)
horner_method_ascending(coefficients, indeterminate) ==
    IF coefficients = <<>> THEN Zero
    ELSE Add(coefficients[Len(coefficients)],
             Mul(indeterminate,
                 horner_method_ascending(
                     SubSeq(coefficients, 1, Len(coefficients) - 1), indeterminate)))

RECURSIVE horner_method(_, _)
horner_method(coefficients, indeterminate) ==
    IF coefficients = <<>> THEN Zero
    ELSE Add(Head(coefficients),
             Mul(indeterminate, horner_method(Tail(coefficients), indeterminate)))

\* self.map(|x| x.clone() - mean)
shifted_array(a, m) == [i \in 1..Len(a) |-> Sub(a[i], m)]

\* the arm `1 => Some(A::zero())` of central_moment
central_moment_of_order_one_is_mean(m) == Some(m)

central_moment_of_order_one(m) == Some(Zero)

\* SummaryStatisticsExt::central_moment (the tag of a call whose coefficients
\* overflowed is "overflow", as in binomial_coefficient)
central_moment(a, order) ==
    LET m == mean(a)
    IN  IF m.tag = "None" THEN None
        ELSE IF order = 0 THEN Some(One)
        ELSE IF order = 1 THEN central_moment_of_order_one(m.v)
        ELSE LET shifted_moments == moments(shifted_array(a, m.v), order)
                 correction_term == Neg(shifted_moments[2])
                 coefficients    == central_moment_coefficients(shifted_moments)
             IN  IF coefficients.tag # "Ok" THEN [tag |-> coefficients.tag]
                 ELSE Some(horner_method(coefficients.v, correction_term))

\* &shifted_moments[..=k]
up_to_all(shifted_moments, k) == shifted_moments

up_to(shifted_moments, k) == SubSeq(shifted_moments, 1, k + 1)

\* SummaryStatisticsExt::central_moments
central_moments(a, order) ==
    LET m == mean(a)
    IN  IF m.tag = "None" THEN None
        ELSE IF order = 0 THEN Some(<<One>>)
        ELSE IF order = 1 THEN Some(<<One, Zero>>)
        ELSE LET shifted_moments == moments(shifted_array(a, m.v), order)
                 correction_term == Neg(shifted_moments[2])
                 coefficients    ==
                     [k \in 2..order |->
                         central_moment_coefficients(up_to(shifted_moments, k))]
             IN  IF \E k \in 2..order : coefficients[k].tag = "panic"
                 THEN [tag |-> "panic"]
                 ELSE IF \E k \in 2..order : coefficients[k].tag = "overflow"
                 THEN [tag |-> "overflow"]
                 ELSE Some([i \in 1..(order + 1) |->
                              IF i = 1 THEN One
                              ELSE IF i = 2 THEN Zero
                              ELSE horner_method(coefficients[i - 1].v,
                                                 correction_term)])

\* SummaryStatisticsExt::kurtosis
kurtosis(a) ==
    LET cm == central_moments(a, 4)
    IN  IF cm.tag # "Some" THEN cm
        ELSE Some(Div(cm.v[5], Powi(cm.v[3], 2)))

\* SummaryStatisticsExt::skewness
skewness(a) ==
    LET cm == central_moments(a, 3)
    IN  IF cm.tag # "Some" THEN cm
        ELSE Some(Quot(cm.v[4], Powi(Sqrt(cm.v[3]), 3)))

(***************************************************************************)
(* n-dimensional bins: BinNd, a product of 1-dimensional intervals, and     *)
(* BinsNd, a collection of them.                                           *)
(***************************************************************************)
\* the 1-dimensional intervals (Bin1d) of the model: [0, 1), [1, 2) and [0, 1]
Bin1ds == {[kind |-> "Range", start |-> 0, end |-> 1],
           [kind |-> "Range", start |-> 1, end |-> 2],
           [kind |-> "RangeInclusive", start |-> 0, end |-> 1]}

\* BinNd::new
bin_nd_new_of_any(projections) == [tag |-> "Ok", v |-> [projections |-> projections]]

bin_nd_new(projections) ==
    IF projections = <<>> THEN [tag |-> "panic"]
    ELSE [tag |-> "Ok", v |-> [projections |-> projections]]

\* BinNd::ndim
bin_nd_ndim(self) == Len(self.projections)

\* the bins the closure of `&bins.iter().map(|b| assert_eq!(b.ndim(), ndim, ..))` is
\* run on: the iterator adapter is built and dropped, so on none
mapped(bins) == {}

\* BinsNd::new
bins_nd_new(bins) ==
    IF bins = <<>> THEN [tag |-> "panic"]
    ELSE LET first_bin == bins[1]
             n         == bin_nd_ndim(first_bin)
         IN  IF \E i \in mapped(bins) : bin_nd_ndim(bins[i]) # n
             THEN [tag |-> "panic"]
             ELSE [tag |-> "Ok", v |-> [bins |-> bins, ndim |-> n]]

\* BinsNd::ndim
bins_nd_ndim(self) == self.ndim

\* Bin1d::contains: Range is start <= x < end, RangeInclusive start <= x <= end
bin1d_contains(projection, element) ==
    IF projection.kind = "Range"
    THEN projection.start <= element /\ element < projection.end
    ELSE projection.start <= element /\ element <= projection.end

\* BinNd::contains: a panic when the point has not ndim() coordinates, else whether
\* every coordinate lies in its projection
bin_nd_contains(self, point) ==
    IF Len(point) # bin_nd_ndim(self) THEN [tag |-> "panic"]
    ELSE [tag |-> "Ok",
          v   |-> \A a \in 1..Len(point) :
                      bin1d_contains(self.projections[a], point[a])]

\* the loop of BinsNd::find over the bins that are left
RECURSIVE find_in(_, _)
find_in(bins, point) ==
    IF bins = <<>> THEN None
    ELSE LET c == bin_nd_contains(Head(bins), point)
         IN  IF c.tag = "panic" THEN [tag |-> "panic"]
             ELSE IF c.v THEN Some(Head(bins))
             ELSE find_in(Tail(bins), point)

\* BinsNd::find
bins_nd_find(self, point) == find_in(self.bins, point)

(***************************************************************************)
(* The state machine.                                                      *)
(***************************************************************************)
vars == <<binned_statistic, call, result, added, histogram, hresult, samples, values,
          bulk, binned, lhs, rhs, out, array, summary, nd, returned>>

\* the rows and the values of the batches of the model: a row in each of two bins and
\* one outside the grid
BatchRows == {<<-1, -1>>, <<0, -1>>, <<1, 0>>}

BatchValues == {Num(1), Num(2), NaN}

Init ==
    /\ binned_statistic = new(square_grid)
    /\ call = [op |-> "none", sample |-> <<>>]
    /\ result = "none"
    /\ added = [ix \in Indices(square_grid) |-> <<>>]
    /\ histogram = histogram_new(square_grid)
    /\ hresult = "none"
    /\ samples = <<>>
    /\ values = <<>>
    /\ bulk = [called |-> FALSE]
    /\ binned = [read |-> FALSE]
    /\ lhs = Empty
    /\ rhs = Empty
    /\ out = [op |-> "none"]
    /\ array = <<>>
    /\ summary = [op |-> "none"]
    /\ nd = [bins |-> <<>>, op |-> "none"]
    /\ returned = [add_sample |-> 0, add_observation |-> 0]

\* a call of add_sample on the aggregator; a panic ends the aggregator's run
Call(sample, value) ==
    LET r  == add_sample(binned_statistic, sample, value)
        at == index_of(square_grid, sample)
    IN  /\ result # "panic"
        /\ call' = [op |-> "add_sample", sample |-> sample]
        /\ binned_statistic' = r.self
        /\ result' = r.ret
        /\ added' = IF r.ret = "Ok" /\ at.tag = "Some"
                    THEN [added EXCEPT ![at.ix] = Append(@, value)]
                    ELSE added
        /\ returned' = IF r.ret = "Ok"
                       THEN [returned EXCEPT !.add_sample = @ + 1]
                       ELSE returned

AddSample(sample, value) ==
    /\ Total(binned_statistic.count) < MaxSamples
    /\ Call(sample, value)
    /\ UNCHANGED <<histogram, hresult, samples, values, bulk, binned, lhs, rhs, out, array, summary, nd>>

Next == \E sample \in Samples, value \in Values : AddSample(sample, value)

Spec == Init /\ [][Next]_vars

\* a run that reads the *_binned arrays of the aggregator it has built
ReadBinned ==
    /\ ~binned.read
    /\ binned' = [read               |-> TRUE,
                  count              |-> count_binned(binned_statistic),
                  number             |-> number_binned(binned_statistic),
                  sum                |-> sum_binned(binned_statistic),
                  mean               |-> mean_binned(binned_statistic),
                  variance           |-> variance_binned(binned_statistic),
                  standard_deviation |-> standard_deviation_binned(binned_statistic),
                  min                |-> min_binned(binned_statistic),
                  max                |-> max_binned(binned_statistic)]
    /\ UNCHANGED <<binned_statistic, call, result, added, histogram, hresult, samples,
                   values, bulk, lhs, rhs, out, array, summary, nd, returned>>

AddSampleUnread(sample, value) == ~binned.read /\ AddSample(sample, value)

NextBinned ==
    \/ \E sample \in Samples, value \in Values : AddSampleUnread(sample, value)
    \/ ReadBinned

SpecBinned == Init /\ [][NextBinned]_vars

\* a run that feeds samples one by one, keeps them, and then hands a batch made of
\* the first n_rows samples and the first n_values values to binned_statistic
AddRow(sample, value) ==
    /\ ~bulk.called
    /\ Len(samples) < MaxBatch
    /\ Call(sample, value)
    /\ samples' = Append(samples, sample)
    /\ values' = Append(values, value)
    /\ UNCHANGED <<histogram, hresult, bulk, binned, lhs, rhs, out, array, summary, nd>>

BinnedStatisticOf(n_rows, n_values) ==
    LET r == binned_statistic_2d(SubSeq(samples, 1, n_rows), square_grid,
                                 SubSeq(values, 1, n_values))
    IN  /\ ~bulk.called
        /\ bulk' = [called |-> TRUE, impl |-> "Ix2", n_rows |-> n_rows,
                    n_values |-> n_values, ret |-> r.ret, self |-> r.self]
        /\ UNCHANGED <<binned_statistic, call, result, added, histogram, hresult,
                       samples, values, binned, lhs, rhs, out, array, summary, nd,
                       returned>>

\* the same batch handed to the 1-dimensional implementation: the first coordinates
\* of the first n_rows samples, on the grid of one axis
BinnedStatisticOfPoints(n_rows, n_values) ==
    LET xs == [i \in 1..n_rows |-> samples[i][1]]
        r  == binned_statistic_1d(xs, line_grid, SubSeq(values, 1, n_values))
    IN  /\ ~bulk.called
        /\ bulk' = [called |-> TRUE, impl |-> "Ix1", n_rows |-> n_rows,
                    n_values |-> n_values, ret |-> r.ret, self |-> r.self]
        /\ UNCHANGED <<binned_statistic, call, result, added, histogram, hresult,
                       samples, values, binned, lhs, rhs, out, array, summary, nd,
                       returned>>

NextBulk ==
    \/ \E sample \in BatchRows, value \in BatchValues : AddRow(sample, value)
    \/ \E n_rows \in 0..Len(samples), n_values \in 0..Len(values) :
           BinnedStatisticOf(n_rows, n_values)
    \/ \E n_rows \in 0..Len(samples), n_values \in 0..Len(values) :
           BinnedStatisticOfPoints(n_rows, n_values)

SpecBulk == Init /\ [][NextBulk]_vars

\* a run that feeds a BinnedStatistic and a Histogram
Fed == Total(binned_statistic.count) + Total(histogram.counts)

AddObservation(observation) ==
    LET r == add_observation(histogram, observation)
    IN  /\ Fed < MaxJoint
        /\ hresult # "panic"
        /\ call' = [op |-> "add_observation", sample |-> observation]
        /\ histogram' = r.self
        /\ hresult' = r.ret
        /\ returned' = IF r.ret = "Ok"
                       THEN [returned EXCEPT !.add_observation = @ + 1]
                       ELSE returned
        /\ UNCHANGED <<binned_statistic, result, added, samples, values, bulk, binned,
                       lhs, rhs, out, array, summary, nd>>

AddSampleBoth(sample, value) ==
    /\ Fed < MaxJoint
    /\ Call(sample, value)
    /\ UNCHANGED <<histogram, hresult, samples, values, bulk, binned, lhs, rhs, out, array, summary, nd>>

NextBoth ==
    \/ \E sample \in Samples, value \in Values : AddSampleBoth(sample, value)
    \/ \E observation \in Samples : AddObservation(observation)

SpecBoth == Init /\ [][NextBoth]_vars

\* BinContent arithmetic on a pair of operands
InitBinContent ==
    /\ binned_statistic = new(square_grid)
    /\ call = [op |-> "none", sample |-> <<>>]
    /\ result = "none"
    /\ added = [ix \in Indices(square_grid) |-> <<>>]
    /\ histogram = histogram_new(square_grid)
    /\ hresult = "none"
    /\ samples = <<>>
    /\ values = <<>>
    /\ bulk = [called |-> FALSE]
    /\ binned = [read |-> FALSE]
    /\ lhs \in BinContents
    /\ rhs \in BinContents
    /\ out = [op |-> "none"]
    /\ array = <<>>
    /\ summary = [op |-> "none"]
    /\ nd = [bins |-> <<>>, op |-> "none"]
    /\ returned = [add_sample |-> 0, add_observation |-> 0]

Operate(op, value) ==
    /\ out' = [op |-> op, v |-> value]
    /\ UNCHANGED <<binned_statistic, call, result, added, histogram, hresult, samples,
                   values, bulk, binned, lhs, rhs, array, summary, nd, returned>>

BinAdd == Operate("add", add(lhs, rhs))

BinSub == Operate("sub", sub(lhs, rhs))

NextBinContent == BinAdd \/ BinSub

SpecBinContent == InitBinContent /\ [][NextBinContent]_vars

\* a run that applies the other operations of BinContent to a pair of operands; a
\* compound assignment replaces the left operand, and is tried on operands of the
\* model only
BinMul == Operate("mul", mul(lhs, rhs))

BinDiv == Operate("div", div(lhs, rhs))

BinRem == Operate("rem", rem(lhs, rhs))

BinNeg == Operate("neg", neg(lhs))

BinZero == Operate("zero", zero)

BinOne == Operate("one", one)

BinIsZero == Operate("is_zero", is_zero(lhs))

BinIsOne == Operate("is_one", is_one(lhs))

BinUnwrap == Operate("unwrap", unwrap(lhs))

BinUnwrapOr(default) ==
    /\ out' = [op |-> "unwrap_or", v |-> unwrap_or(lhs, default), default |-> default]
    /\ UNCHANGED <<binned_statistic, call, result, added, histogram, hresult, samples,
                   values, bulk, binned, lhs, rhs, array, summary, nd, returned>>

BinUnwrapOrElse(f) ==
    /\ out' = [op |-> "unwrap_or_else", v |-> unwrap_or_else(lhs, f), default |-> f]
    /\ UNCHANGED <<binned_statistic, call, result, added, histogram, hresult, samples,
                   values, bulk, binned, lhs, rhs, array, summary, nd, returned>>

Assign(op, value) ==
    /\ lhs \in BinContents
    /\ lhs' = value
    /\ out' = [op |-> op, v |-> lhs]
    /\ UNCHANGED <<binned_statistic, call, result, added, histogram, hresult, samples,
                   values, bulk, binned, rhs, array, summary, nd, returned>>

BinAddAssign == Assign("add_assign", add_assign(lhs, rhs))

BinSubAssign == Assign("sub_assign", sub_assign(lhs, rhs))

BinMulAssign == Assign("mul_assign", mul_assign(lhs, rhs))

BinDivAssign == Assign("div_assign", div_assign(lhs, rhs))

BinRemAssign == Assign("rem_assign", rem_assign(lhs, rhs))

NextBinOps ==
    \/ BinAdd \/ BinSub \/ BinMul \/ BinDiv \/ BinRem
    \/ BinNeg \/ BinZero \/ BinOne \/ BinIsZero \/ BinIsOne
    \/ BinUnwrap
    \/ \E default \in Payloads : BinUnwrapOr(default)
    \/ \E f \in Payloads : BinUnwrapOrElse(f)
    \/ BinAddAssign \/ BinSubAssign \/ BinMulAssign \/ BinDivAssign \/ BinRemAssign

SpecBinOps == InitBinContent /\ [][NextBinOps]_vars

\* a run that takes one summary statistic of one collection
ArrayValues == {Num(i) : i \in (-1)..MaxValue} \cup {NaN, Infinity}

Arrays == UNION {[1..n -> ArrayValues] : n \in 0..MaxLen}

InitSummary ==
    /\ binned_statistic = new(square_grid)
    /\ call = [op |-> "none", sample |-> <<>>]
    /\ result = "none"
    /\ added = [ix \in Indices(square_grid) |-> <<>>]
    /\ histogram = histogram_new(square_grid)
    /\ hresult = "none"
    /\ samples = <<>>
    /\ values = <<>>
    /\ bulk = [called |-> FALSE]
    /\ binned = [read |-> FALSE]
    /\ lhs = Empty
    /\ rhs = Empty
    /\ out = [op |-> "none"]
    /\ array \in Arrays
    /\ summary = [op |-> "none"]
    /\ nd = [bins |-> <<>>, op |-> "none"]
    /\ returned = [add_sample |-> 0, add_observation |-> 0]

Summarise(op, order, ret) ==
    /\ summary.op = "none"
    /\ summary' = [op |-> op, order |-> order, ret |-> ret]
    /\ UNCHANGED <<binned_statistic, call, result, added, histogram, hresult, samples,
                   values, bulk, binned, lhs, rhs, out, array, nd, returned>>

Mean == Summarise("mean", 1, mean(array))

HarmonicMean == Summarise("harmonic_mean", 1, harmonic_mean(array))

GeometricMean == Summarise("geometric_mean", 1, geometric_mean(array))

Kurtosis == Summarise("kurtosis", 4, kurtosis(array))

Skewness == Summarise("skewness", 3, skewness(array))

CentralMoment(order) == Summarise("central_moment", order, central_moment(array, order))

CentralMoments(order) ==
    Summarise("central_moments", order, central_moments(array, order))

NextSummary ==
    \/ Mean \/ HarmonicMean \/ GeometricMean \/ Kurtosis \/ Skewness
    \/ \E order \in 0..MaxOrder : CentralMoment(order)
    \/ \E order \in 0..MaxOrder : CentralMoments(order)

SpecSummary == InitSummary /\ [][NextSummary]_vars

\* a run of binomial_coefficient(n, k) and then, when it has returned, of
\* binomial_coefficient(n, n - k), an iteration of the loop at a time, in a build with
\* or without overflow checks; first is what the first of the two calls returned
binomial_call(n, k, overflow_checks, first) ==
    [op |-> "binomial_coefficient", n |-> n, k |-> k,
     overflow_checks |-> overflow_checks,
     pc     |-> IF k > n THEN "done" ELSE "loop",
     k2     |-> IF k > n - k THEN n - k ELSE k,
     i      |-> 0,
     result |-> [v |-> usize(1), overflow |-> FALSE],
     ret    |-> IF k > n THEN [tag |-> "panic"] ELSE [tag |-> "none"],
     first  |-> first]

BinomialCoefficient(n, k, overflow_checks) ==
    /\ summary' = binomial_call(n, k, overflow_checks, [tag |-> "none"])
    /\ UNCHANGED <<binned_statistic, call, result, added, histogram, hresult,
                   samples, values, bulk, binned, lhs, rhs, out, array, nd, returned>>

BinomialLoop ==
    /\ summary.op = "binomial_coefficient"
    /\ summary.pc = "loop"
    /\ summary' =
         IF summary.i >= summary.k2
         THEN [summary EXCEPT !.pc = "done",
                              !.ret = [tag |-> "Ok", v |-> summary.result.v]]
         ELSE IF /\ summary.overflow_checks
                 /\ mul_overflows(summary.result.v, summary.n - summary.i)
         THEN [summary EXCEPT !.pc = "done", !.ret = [tag |-> "panic"]]
         ELSE [summary EXCEPT
                  !.i = @ + 1,
                  !.result = binomial_step(summary.n, summary.i, summary.result)]
    /\ UNCHANGED <<binned_statistic, call, result, added, histogram, hresult,
                   samples, values, bulk, binned, lhs, rhs, out, array, nd, returned>>

BinomialCoefficientOfTheRest ==
    /\ summary.op = "binomial_coefficient"
    /\ summary.pc = "done"
    /\ summary.first.tag = "none"
    /\ summary.k <= summary.n
    /\ summary' = binomial_call(summary.n, summary.n - summary.k,
                                summary.overflow_checks, summary.ret)
    /\ UNCHANGED <<binned_statistic, call, result, added, histogram, hresult,
                   samples, values, bulk, binned, lhs, rhs, out, array, nd, returned>>

NextBinomial ==
    \/ /\ summary.op = "none"
       /\ \E n \in 0..MaxChoose, k \in 0..(MaxChoose + 1), overflow_checks \in BOOLEAN :
              BinomialCoefficient(n, k, overflow_checks)
    \/ BinomialLoop
    \/ BinomialCoefficientOfTheRest

SpecBinomial == Init /\ [][NextBinomial]_vars

\* a run of add_sample calls that keeps the samples and values of the calls, in order
OrderedSamples == {<<-1, -1>>, <<0, -1>>}

OrderedValues == {Num(1), Num(2), Infinity, NaN}

AddSampleInOrder(sample, value) ==
    /\ Len(samples) < MaxOrdered
    /\ Call(sample, value)
    /\ samples' = Append(samples, sample)
    /\ values' = Append(values, value)
    /\ UNCHANGED <<histogram, hresult, bulk, binned, lhs, rhs, out, array, summary, nd>>

NextOrdered ==
    \E sample \in OrderedSamples, value \in OrderedValues :
        AddSampleInOrder(sample, value)

SpecOrdered == Init /\ [][NextOrdered]_vars

\* a run that adds, subtracts, multiplies or negates a pair of operands, the payloads
\* non-finite ones included
Operands == {Empty} \cup {Value(x) : x \in Payloads \cup {Infinity, NegInfinity, NaN}}

InitAlgebra ==
    /\ binned_statistic = new(square_grid)
    /\ call = [op |-> "none", sample |-> <<>>]
    /\ result = "none"
    /\ added = [ix \in Indices(square_grid) |-> <<>>]
    /\ histogram = histogram_new(square_grid)
    /\ hresult = "none"
    /\ samples = <<>>
    /\ values = <<>>
    /\ bulk = [called |-> FALSE]
    /\ binned = [read |-> FALSE]
    /\ lhs \in Operands
    /\ rhs \in Operands
    /\ out = [op |-> "none"]
    /\ array = <<>>
    /\ summary = [op |-> "none"]
    /\ nd = [bins |-> <<>>, op |-> "none"]
    /\ returned = [add_sample |-> 0, add_observation |-> 0]

NextAlgebra == BinAdd \/ BinSub \/ BinMul \/ BinNeg

SpecAlgebra == InitAlgebra /\ [][NextAlgebra]_vars

\* a run that builds n-dimensional bins and collections of the bins built
Projections == UNION {[1..n -> Bin1ds] : n \in 0..MaxDim}

BinNdNew(projections) ==
    LET r == bin_nd_new(projections)
    IN  /\ Len(nd.bins) < MaxBins
        /\ nd' = [bins |-> IF r.tag = "Ok" THEN Append(nd.bins, r.v) ELSE nd.bins,
                  op   |-> "BinNd::new",
                  arg  |-> projections,
                  ret  |-> r]
        /\ UNCHANGED <<binned_statistic, call, result, added, histogram, hresult,
                       samples, values, bulk, binned, lhs, rhs, out, array, summary,
                       returned>>

BinsNdNew ==
    /\ nd' = [bins |-> nd.bins,
              op   |-> "BinsNd::new",
              arg  |-> nd.bins,
              ret  |-> bins_nd_new(nd.bins)]
    /\ UNCHANGED <<binned_statistic, call, result, added, histogram, hresult,
                   samples, values, bulk, binned, lhs, rhs, out, array, summary,
                   returned>>

NextNd ==
    \/ \E projections \in Projections : BinNdNew(projections)
    \/ BinsNdNew

SpecNd == Init /\ [][NextNd]_vars

\* a run that builds bins, collects them and looks points up in the collection
FindProjections ==
    UNION {[1..n -> {b \in Bin1ds : b.kind = "Range"}] : n \in 1..MaxDim}

Points == UNION {[1..n -> 0..2] : n \in 1..MaxDim}

BinsNdFind(point) ==
    /\ nd.op = "BinsNd::new"
    /\ nd.ret.tag = "Ok"
    /\ nd' = [bins |-> nd.bins,
              op   |-> "BinsNd::find",
              self |-> nd.ret.v,
              arg  |-> point,
              ret  |-> bins_nd_find(nd.ret.v, point)]
    /\ UNCHANGED <<binned_statistic, call, result, added, histogram, hresult,
                   samples, values, bulk, binned, lhs, rhs, out, array, summary,
                   returned>>

NextFind ==
    \/ \E projections \in FindProjections : BinNdNew(projections)
    \/ BinsNdNew
    \/ \E point \in Points : BinsNdFind(point)

SpecFind == Init /\ [][NextFind]_vars

(***************************************************************************)
(* Definitions the properties are stated with.                             *)
(***************************************************************************)
Bins == Indices(square_grid)

AllFinite(vs) == \A i \in 1..Len(vs) : IsFinite(vs[i])

RECURSIVE SeqSum(_)
SeqSum(vs) == IF vs = <<>> THEN Zero ELSE Add(Head(vs), SeqSum(Tail(vs)))

SeqMean(vs) == Div(SeqSum(vs), Num(Len(vs)))

\* (1/n) * sum((v_i - mean)^2)
PopulationVariance(vs) ==
    LET m == SeqMean(vs)
    IN  Div(SeqSum([i \in 1..Len(vs) |-> Mul(Sub(vs[i], m), Sub(vs[i], m))]),
            Num(Len(vs)))

Smallest(vs) == CHOOSE v \in {vs[i] : i \in 1..Len(vs)} :
                    \A i \in 1..Len(vs) : Le(v, vs[i])

Largest(vs) == CHOOSE v \in {vs[i] : i \in 1..Len(vs)} :
                   \A i \in 1..Len(vs) : Le(vs[i], v)

Stats == {"count", "number", "sum", "mean", "variance", "standard_deviation",
          "min", "max"}

RECURSIVE Power(_, _)
Power(x, p) == IF p = 0 THEN One ELSE Mul(x, Power(x, p - 1))

\* mean((x - mean(x))^p)
MomentAboutMean(xs, p) ==
    LET m == SeqMean(xs)
    IN  SeqMean([i \in 1..Len(xs) |-> Power(Sub(xs[i], m), p)])

RECURSIVE Factorial(_)
Factorial(n) == IF n = 0 THEN 1 ELSE n * Factorial(n - 1)

\* n! / (k! * (n-k)!), for 0 <= k <= n
Choose(n, k) == Factorial(n) \div (Factorial(k) * Factorial(n - k))

\* the sum over i = lo..hi of term(i)
RECURSIVE SumOfTerms(_, _, _)
SumOfTerms(term(_), lo, hi) ==
    IF lo > hi THEN Zero ELSE Add(term(lo), SumOfTerms(term, lo + 1, hi))

\* numbers of any size as limbs of 16 bits, the least significant first
RECURSIVE add_limbs(_, _, _)
add_limbs(a, b, carry) ==
    IF a = <<>> THEN <<>>
    ELSE LET s == Head(a) + Head(b) + carry
         IN  <<s % 65536>> \o add_limbs(Tail(a), Tail(b), s \div 65536)

Wide(x) == <<x, 0, 0, 0, 0, 0>>

\* the rows 0..n of Pascal's triangle: row n holds n! / (k! * (n-k)!) for k = 0..n
RECURSIVE NextRow(_, _)
NextRow(last, i) ==
    IF i > Len(last) + 1 THEN <<>>
    ELSE <<add_limbs(IF i > 1 THEN last[i - 1] ELSE Wide(0),
                     IF i <= Len(last) THEN last[i] ELSE Wide(0), 0)>>
         \o NextRow(last, i + 1)

RECURSIVE PascalRows(_)
PascalRows(n) ==
    IF n = 0 THEN << <<Wide(1)>> >>
    ELSE LET rows == PascalRows(n - 1)
         IN  Append(rows, NextRow(rows[n], 1))

PascalTriangle == PascalRows(MaxChoose)

\* n over k, for 0 <= k <= n <= MaxChoose
Binomial(n, k) == PascalTriangle[n + 1][k + 1]

\* a usize as a number of any size
Widen(a) == a \o <<0, 0>>

\* the orderings of n calls
Orderings(n) == {p \in [1..n -> 1..n] : \A i, j \in 1..n : p[i] = p[j] => i = j}

\* the aggregator after add_sample of the first n of the samples and values
RECURSIVE Replay(_, _, _)
Replay(ss, vs, n) ==
    IF n = 0 THEN new(square_grid)
    ELSE add_sample(Replay(ss, vs, n - 1), ss[n], vs[n]).self

\* the aggregator after the calls made so far, made in the ordering p
Reordered(p) ==
    Replay([i \in 1..Len(samples) |-> samples[p[i]]],
           [i \in 1..Len(values) |-> values[p[i]]], Len(samples))

SummaryOps == {"mean", "harmonic_mean", "geometric_mean", "central_moment",
               "central_moments", "skewness", "kurtosis"}

(***************************************************************************)
(* Properties.                                                             *)
(***************************************************************************)
\* C1: an add_sample call whose sample the grid resolves to no bin returns
\* Err(BinNotFound) and leaves all eight arrays as they were.
C1_BinNotFoundChangesNothing ==
    [][(call'.op = "add_sample"
          /\ index_of(binned_statistic.grid, call'.sample).tag = "None")
       => (result' = "BinNotFound" /\ binned_statistic' = binned_statistic)]_vars

C1_Witness == result = "BinNotFound" /\ Total(binned_statistic.count) > 0

\* C2: an add_sample call that resolves to bin b raises count[b] and number[b] by
\* exactly 1, leaves them equal, and leaves count and number of every other bin alone.
C2_CountAndNumberStep ==
    [][(call'.op = "add_sample"
          /\ index_of(binned_statistic.grid, call'.sample).tag = "Some")
       => LET b == index_of(binned_statistic.grid, call'.sample).ix
          IN  /\ binned_statistic'.count[b] = binned_statistic.count[b] + 1
              /\ binned_statistic'.number[b] = Add(binned_statistic.number[b], One)
              /\ binned_statistic'.number[b] = Num(binned_statistic'.count[b])
              /\ \A o \in Bins \ {b} :
                   /\ binned_statistic'.count[o] = binned_statistic.count[o]
                   /\ binned_statistic'.number[o] = binned_statistic.number[o]]_vars

C2_Witness ==
    /\ result = "Ok"
    /\ \E b \in Bins, o \in Bins :
         /\ b # o
         /\ binned_statistic.count[b] = 2
         /\ binned_statistic.count[o] = 1

\* C3: after the finite values v1..vn (n >= 1) have been added to a bin, the bin holds
\* count n, their sum, their mean, their population variance, its square root, their
\* smallest and their largest; [1, 2] gives 3, 1.5, 0.25, 0.5, 1, 2 and count 2.
C3_ClosedForms ==
    \A b \in Bins :
      LET vs == added[b]
      IN  /\ (Len(vs) >= 1 /\ AllFinite(vs)) =>
                /\ binned_statistic.count[b] = Len(vs)
                /\ binned_statistic.sum[b] = SeqSum(vs)
                /\ binned_statistic.mean[b] = SeqMean(vs)
                /\ binned_statistic.variance[b] = PopulationVariance(vs)
                /\ binned_statistic.standard_deviation[b] = Sqrt(PopulationVariance(vs))
                /\ binned_statistic.min[b] = Smallest(vs)
                /\ binned_statistic.max[b] = Largest(vs)
          /\ vs = <<Num(1), Num(2)>> =>
                /\ binned_statistic.count[b] = 2
                /\ binned_statistic.sum[b] = Num(3)
                /\ binned_statistic.mean[b] = Ratio(3, 2)
                /\ binned_statistic.variance[b] = Ratio(1, 4)
                /\ binned_statistic.standard_deviation[b] = Ratio(1, 2)
                /\ binned_statistic.min[b] = Num(1)
                /\ binned_statistic.max[b] = Num(2)

C3_Witness ==
    \E b \in Bins :
      /\ Len(added[b]) = 3
      /\ AllFinite(added[b])
      /\ binned_statistic.variance[b] = Ratio(2, 9)

\* C4 as stated: for every bin count == 0 iff number == 0, an empty bin holds min
\* +inf and max -inf, and once count > 0 min <= max.
C4_MinLeMaxOnceCounted ==
    \A b \in Bins :
      /\ binned_statistic.count[b] = 0 <=> FloatEq(binned_statistic.number[b], Zero)
      /\ binned_statistic.count[b] = 0 =>
            /\ binned_statistic.min[b] = Infinity
            /\ binned_statistic.max[b] = NegInfinity
      /\ binned_statistic.count[b] > 0 =>
            Le(binned_statistic.min[b], binned_statistic.max[b])

\* C4 amended: for every bin count == 0 iff number == 0; a bin that has received no
\* value, or only NaN values, holds min +inf and max -inf; and once a bin has
\* received a value that is not NaN, min <= max.
C4_MinLeMaxOnceNumbered ==
    \A b \in Bins :
      /\ binned_statistic.count[b] = 0 <=> FloatEq(binned_statistic.number[b], Zero)
      /\ (\A i \in 1..Len(added[b]) : IsNaN(added[b][i])) =>
            /\ binned_statistic.min[b] = Infinity
            /\ binned_statistic.max[b] = NegInfinity
      /\ (\E i \in 1..Len(added[b]) : ~IsNaN(added[b][i])) =>
            Le(binned_statistic.min[b], binned_statistic.max[b])

C4_Witness ==
    \E b \in Bins, o \in Bins :
      /\ added[b] = <<NaN>>
      /\ binned_statistic.count[b] = 1
      /\ added[o] = <<Num(2), Num(1)>>

\* C5 as stated: in every reachable state, for every bin, variance >= 0 and
\* standard_deviation == sqrt(variance).
C5_VarianceAlways ==
    \A b \in Bins :
      /\ Le(Zero, binned_statistic.variance[b])
      /\ FloatEq(binned_statistic.standard_deviation[b],
                 Sqrt(binned_statistic.variance[b]))

\* C5 amended: in every reachable state, for every bin that has received only
\* finite values (none included), variance >= 0 and
\* standard_deviation == sqrt(variance).
C5_VarianceOfFinite ==
    \A b \in Bins :
      AllFinite(added[b]) =>
        /\ Le(Zero, binned_statistic.variance[b])
        /\ FloatEq(binned_statistic.standard_deviation[b],
                   Sqrt(binned_statistic.variance[b]))

C5_Witness ==
    \E b \in Bins :
      /\ added[b] = <<Num(1), Num(2)>>
      /\ binned_statistic.standard_deviation[b] = Ratio(1, 2)

\* C6: binned_statistic on a batch of n rows and n values returns the aggregator
\* that new(grid) followed by add_sample(row i, value i), i = 0..n-1, builds when
\* every BinNotFound is ignored.
C6_BulkIsTheLoop ==
    (/\ bulk.called
     /\ bulk.impl = "Ix2"
     /\ bulk.n_rows = Len(samples)
     /\ bulk.n_values = Len(values)) =>
        /\ bulk.ret = "returned"
        /\ bulk.self = binned_statistic
        /\ Total(bulk.self.count) = Total([b \in Bins |-> Len(added[b])])

C6_Witness ==
    /\ bulk.called
    /\ bulk.impl = "Ix2"
    /\ bulk.n_rows = 2
    /\ bulk.n_values = 2
    /\ samples[1] = <<1, 0>>
    /\ Total(bulk.self.count) = 1

\* C7: binned_statistic on a batch whose numbers of rows and of values differ fails.
C7_MismatchedBatchFails ==
    bulk.called => (bulk.n_rows # bulk.n_values => bulk.ret = "panic")

\* C8: add_sample and add_observation called with a sample whose number of
\* coordinates is not ndim() panic, and write to no array.
C8_DimensionMismatchPanics ==
    [][/\ (call'.op = "add_sample"
             /\ Len(call'.sample) # ndim(binned_statistic))
          => (result' = "panic" /\ binned_statistic' = binned_statistic)
       /\ (call'.op = "add_observation"
             /\ Len(call'.sample) # histogram_ndim(histogram))
          => (hresult' = "panic" /\ histogram' = histogram)]_vars

C8_Witness ==
    /\ result = "panic"
    /\ hresult = "panic"
    /\ Fed > 0

\* C9: each *_binned accessor returns an array of the raw array's shape whose cell
\* is Empty exactly where count is 0 and Value(raw value) elsewhere.
C9_BinnedIsRawOrEmpty ==
    binned.read =>
      \A stat \in Stats :
        /\ DOMAIN binned[stat] = DOMAIN binned_statistic[stat]
        /\ \A b \in Bins :
             /\ binned[stat][b].tag = "Empty" <=> binned_statistic.count[b] = 0
             /\ binned_statistic.count[b] # 0 =>
                  binned[stat][b] = Value(binned_statistic[stat][b])

C9_Witness ==
    /\ binned.read
    /\ \E b \in Bins, o \in Bins :
         /\ binned_statistic.count[b] = 0
         /\ binned.min[b] = Empty
         /\ binned_statistic.count[o] > 0
         /\ binned.min[o] = Value(Infinity)

\* C10: BinContent addition and subtraction are total with Empty as the identity:
\* Empty+Empty = Empty, Value(v)+Empty = Value(v), Empty+Value(w) = Value(w),
\* Value(v)+Value(w) = Value(v+w); Empty-Empty = Empty, Value(v)-Empty = Value(v),
\* Empty-Value(w) = Value(-w), Value(v)-Value(w) = Value(v-w).
C10_EmptyIsAdditiveIdentity ==
    /\ out.op = "add" =>
         /\ out.v \in BinContents \cup {Value(Add(v, w)) : v \in Payloads, w \in Payloads}
         /\ (lhs = Empty /\ rhs = Empty) => out.v = Empty
         /\ rhs = Empty => out.v = lhs
         /\ lhs = Empty => out.v = rhs
         /\ (lhs # Empty /\ rhs # Empty) => out.v = Value(Add(lhs.v, rhs.v))
    /\ out.op = "sub" =>
         /\ (lhs = Empty /\ rhs = Empty) => out.v = Empty
         /\ rhs = Empty => out.v = lhs
         /\ (lhs = Empty /\ rhs # Empty) => out.v = Value(Neg(rhs.v))
         /\ (lhs # Empty /\ rhs # Empty) => out.v = Value(Sub(lhs.v, rhs.v))

C10_Witness ==
    /\ out.op = "sub"
    /\ lhs = Empty
    /\ rhs = Value(Num(2))
    /\ out.v = Value(Num(-2))

\* C11: BinContent multiplication, division and remainder are total with Empty
\* absorbing: Empty whenever an operand is Empty, else Value(v*w), Value(v/w),
\* Value(v%w).
C11_EmptyIsAbsorbing ==
    /\ out.op \in {"mul", "div", "rem"} =>
         /\ out.v.tag \in {"Empty", "Value"}
         /\ (lhs = Empty \/ rhs = Empty) => out.v = Empty
    /\ (lhs # Empty /\ rhs # Empty) =>
         /\ out.op = "mul" => out.v = Value(Mul(lhs.v, rhs.v))
         /\ out.op = "div" => out.v = Value(Div(lhs.v, rhs.v))
         /\ out.op = "rem" => out.v = Value(Rem(lhs.v, rhs.v))

C11_Witness ==
    /\ out.op = "rem"
    /\ lhs = Value(Num(-2))
    /\ out.v = Value(Zero)
    /\ rhs # Empty

\* C12: for every pair of operands a, b and every op of +, -, *, /, %, after a op= b
\* a holds the result of a op b.
C12_AssignIsTheOperator ==
    /\ out.op = "add_assign" => lhs = add(out.v, rhs)
    /\ out.op = "sub_assign" => lhs = sub(out.v, rhs)
    /\ out.op = "mul_assign" => lhs = mul(out.v, rhs)
    /\ out.op = "div_assign" => lhs = div(out.v, rhs)
    /\ out.op = "rem_assign" => lhs = rem(out.v, rhs)

C12_Witness ==
    /\ out.op = "sub_assign"
    /\ out.v = Empty
    /\ rhs = Value(Num(2))
    /\ lhs = Value(Num(-2))

\* C13: zero() is Empty and is_zero holds exactly of Empty; one() is Value(1) and
\* is_one holds exactly of Value(1); negation maps Value(v) to Value(-v) and Empty to
\* Empty.
C13_ZeroOneNeg ==
    /\ out.op = "zero" => out.v = Empty
    /\ out.op = "is_zero" => (out.v <=> lhs = Empty)
    /\ out.op = "one" => out.v = Value(Num(1))
    /\ out.op = "is_one" => (out.v <=> lhs = Value(Num(1)))
    /\ out.op = "neg" =>
         /\ lhs = Empty => out.v = Empty
         /\ lhs # Empty => out.v = Value(Neg(lhs.v))

C13_Witness ==
    /\ out.op = "is_zero"
    /\ lhs = Value(Zero)
    /\ out.v = FALSE

\* C14: unwrap returns the payload of Value(v) and panics on Empty; unwrap_or and
\* unwrap_or_else never panic: the payload for Value(v), the default or the
\* closure's result for Empty.
C14_UnwrapFamily ==
    /\ out.op = "unwrap" =>
         /\ lhs = Empty => out.v.tag = "panic"
         /\ lhs # Empty => (out.v.tag = "Ok" /\ out.v.v = lhs.v)
    /\ out.op \in {"unwrap_or", "unwrap_or_else"} =>
         /\ out.v.tag = "Ok"
         /\ lhs = Empty => out.v.v = out.default
         /\ lhs # Empty => out.v.v = lhs.v

C14_Witness ==
    /\ out.op = "unwrap"
    /\ lhs = Empty
    /\ out.v.tag = "panic"

C16_ZerothAndFirstCentralMoment ==
    (summary.op = "central_moment" /\ array # <<>>) =>
        /\ summary.order = 0 => summary.ret = Some(Num(1))
        /\ summary.order = 1 => summary.ret = Some(Num(0))

C16_Witness ==
    /\ summary.op = "central_moment"
    /\ summary.order = 1
    /\ array = <<Num(2), Num(1)>>
    /\ summary.ret = Some(Num(0))

C18_MomentAboutTheMean ==
    (/\ summary.op = "central_moment"
     /\ summary.order >= 2
     /\ array # <<>>
     /\ AllFinite(array)) =>
        summary.ret = Some(MomentAboutMean(array, summary.order))

C18_Witness ==
    /\ summary.op = "central_moment"
    /\ summary.order = 3
    /\ array = <<Num(0), Num(0), Num(2)>>
    /\ summary.ret = Some(Ratio(16, 27))

\* C19: BinsNd::new panics when the bins collection is empty or when two of the
\* bins have different dimensionality, and returns a BinsNd only when all bins
\* share one dimensionality.
C19_BinsNdNewChecksDimensions ==
    nd.op = "BinsNd::new" =>
        LET mixed == \E i \in 1..Len(nd.arg), j \in 1..Len(nd.arg) :
                         Len(nd.arg[i].projections) # Len(nd.arg[j].projections)
        IN  /\ (nd.arg = <<>> \/ mixed) => nd.ret.tag = "panic"
            /\ nd.ret.tag = "Ok" => ~mixed

\* C20: BinNd::new panics on an empty list of projections and otherwise returns a
\* bin whose ndim() is the number of projections given.
C20_BinNdNew ==
    nd.op = "BinNd::new" =>
        /\ nd.arg = <<>> => nd.ret.tag = "panic"
        /\ nd.arg # <<>> =>
             /\ nd.ret.tag = "Ok"
             /\ bin_nd_ndim(nd.ret.v) = Len(nd.arg)

C20_Witness ==
    /\ nd.op = "BinNd::new"
    /\ nd.arg = <<>>
    /\ nd.ret.tag = "panic"
    /\ Len(nd.bins) = 1
    /\ bin_nd_ndim(nd.bins[1]) = 2

\* C21: BinsNd::find of a point P of ndim() coordinates returns Some(B) only for a
\* bin B of the collection that contains P, and None exactly when no bin of the
\* collection contains P.
C21_FindReturnsAContainingBin ==
    (nd.op = "BinsNd::find" /\ Len(nd.arg) = bins_nd_ndim(nd.self)) =>
        LET holds(B) == /\ Len(B.projections) = Len(nd.arg)
                        /\ \A a \in 1..Len(nd.arg) :
                               bin1d_contains(B.projections[a], nd.arg[a])
            holders  == {i \in 1..Len(nd.self.bins) : holds(nd.self.bins[i])}
        IN  /\ nd.ret.tag = "Some" =>
                 \E i \in holders : nd.ret.v = nd.self.bins[i]
            /\ nd.ret.tag = "None" <=> holders = {}

\* The same statement over the collections whose bins share one dimensionality,
\* the ones BinsNd::new is documented to accept.
FindAmongBinsOfOneDimension ==
    (/\ nd.op = "BinsNd::find"
     /\ Len(nd.arg) = bins_nd_ndim(nd.self)
     /\ \A i \in 1..Len(nd.self.bins) :
            bin_nd_ndim(nd.self.bins[i]) = bins_nd_ndim(nd.self)) =>
        LET holds(B) == \A a \in 1..Len(nd.arg) :
                            bin1d_contains(B.projections[a], nd.arg[a])
            holders  == {i \in 1..Len(nd.self.bins) : holds(nd.self.bins[i])}
        IN  /\ nd.ret.tag = "Some" =>
                 \E i \in holders : nd.ret.v = nd.self.bins[i]
            /\ nd.ret.tag = "None" <=> holders = {}


\* C22: for a target order k >= 2 the polynomial coefficients built from the shifted
\* raw moments [M'0..M'k] are C(k, i) * M'_{k-i} for i = 0..k, and the value
\* returned is the sum over i = 0..k of C(k, i) * M'_{k-i} * c^i with c = -M'1.
C22_CoefficientsAreBinomial ==
    (/\ summary.op = "central_moment"
     /\ summary.order >= 2
     /\ array # <<>>) =>
        LET k  == summary.order
            M  == moments(shifted_array(array, mean(array).v), k)
            c  == Neg(M[2])
            coefficients == central_moment_coefficients(M)
            term(i) == Mul(Mul(Num(Choose(k, i)), M[k - i + 1]), Power(c, i))
        IN  /\ coefficients.tag = "Ok"
            /\ coefficients.v =
                   [i \in 1..(k + 1) |-> Mul(Num(Choose(k, i - 1)), M[k - i + 2])]
            /\ summary.ret = Some(SumOfTerms(term, 0, k))


\* C23: binomial_coefficient(n, k) returns n! / (k! * (n-k)!) for every 0 <= k <= n,
\* every integer division of its loop being exact; it agrees with
\* binomial_coefficient(n, n-k); and it panics whenever k > n.
C23_BinomialCoefficient ==
    summary.op = "binomial_coefficient" =>
        LET n == summary.n
            k == summary.k
        IN  /\ (summary.pc = "loop" /\ summary.i < summary.k2) =>
                   div_limbs(wrapping_mul(summary.result.v, n - summary.i),
                             summary.i + 1).r = 0
            /\ (summary.pc = "done" /\ k <= n) =>
                   /\ summary.ret.tag = "Ok"
                   /\ Widen(summary.ret.v) = Binomial(n, k)
                   /\ summary.first.tag # "none" => summary.ret = summary.first
            /\ (summary.pc = "done" /\ k > n) => summary.ret.tag = "panic"

\* The same statement over the calls with n < 63, none of whose multiplications
\* overflows.
BinomialCoefficientBelow63 ==
    (summary.op = "binomial_coefficient" /\ summary.n < 63) =>
        LET n == summary.n
            k == summary.k
        IN  /\ ~summary.result.overflow
            /\ (summary.pc = "loop" /\ summary.i < summary.k2) =>
                   div_limbs(wrapping_mul(summary.result.v, n - summary.i),
                             summary.i + 1).r = 0
            /\ (summary.pc = "done" /\ k <= n) =>
                   /\ summary.ret.tag = "Ok"
                   /\ Widen(summary.ret.v) = Binomial(n, k)
                   /\ summary.first.tag # "none" => summary.ret = summary.first
            /\ (summary.pc = "done" /\ k > n) => summary.ret.tag = "panic"

\* C24: no call of central_moment or central_moments (nor of kurtosis and skewness,
\* which call central_moments), for any collection and any order, runs into the
\* panic of binomial_coefficient for k > n.
C24_BinomialPanicUnreachable ==
    summary.op \in {"central_moment", "central_moments", "kurtosis", "skewness"} =>
        summary.ret.tag # "panic"

C24_Witness ==
    /\ summary.op = "central_moments"
    /\ summary.order = MaxOrder
    /\ Len(array) = MaxLen
    /\ summary.ret.tag = "Some"


\* C25: a call of add_observation with an observation of ndim() coordinates either
\* returns Ok after adding 1 to exactly one cell of counts, the cell at the per-axis
\* bin indices of the observation, all other cells unchanged, or returns BinNotFound
\* with every cell of counts unchanged, also when leading coordinates resolve to a
\* bin and a later one does not.
C25_OneCellOrNone ==
    [][(/\ call'.op = "add_observation"
        /\ Len(call'.sample) = histogram_ndim(histogram)) =>
          LET at == [a \in 1..Len(call'.sample) |->
                        bins_index_of(histogram.bins[a], call'.sample[a])]
          IN  \/ /\ hresult' = "Ok"
                 /\ \A a \in 1..Len(at) : at[a] # <<>>
                 /\ DOMAIN histogram'.counts = DOMAIN histogram.counts
                 /\ \A ix \in DOMAIN histogram.counts :
                        histogram'.counts[ix] =
                            IF ix = [a \in 1..Len(at) |-> at[a][1]]
                            THEN histogram.counts[ix] + 1
                            ELSE histogram.counts[ix]
                 /\ Cardinality({ix \in DOMAIN histogram.counts :
                        histogram'.counts[ix] # histogram.counts[ix]}) = 1
              \/ /\ hresult' = "BinNotFound"
                 /\ \E a \in 1..Len(at) : at[a] = <<>>
                 /\ histogram'.counts = histogram.counts]_vars

\* a call whose first coordinate resolves to a bin and whose second does not, on a
\* histogram that has counted an observation
C25_Witness ==
    /\ call = [op |-> "add_observation", sample |-> <<0, 1>>]
    /\ hresult = "BinNotFound"
    /\ Total(histogram.counts) = 1


\* C26 as stated: the aggregator does not depend on the order of the add_sample
\* calls: every ordering of the same samples gives the same count, number, sum, min
\* and max, and the same mean, variance and standard_deviation.
C26_OrderNeverMatters ==
    \A p \in Orderings(Len(samples)) :
        LET other == Reordered(p)
        IN  \A s \in Stats : other[s] = binned_statistic[s]

\* C26 amended: every ordering of the same samples gives the same count, number,
\* sum, min and max, and the same mean, variance and standard_deviation in every bin
\* whose values are all finite.
C26_OrderMattersOnlyToNonFinite ==
    \A p \in Orderings(Len(samples)) :
        LET other == Reordered(p)
        IN  /\ \A s \in {"count", "number", "sum", "min", "max"} :
                   other[s] = binned_statistic[s]
            /\ \A b \in Bins :
                   AllFinite(added[b]) =>
                       \A s \in {"mean", "variance", "standard_deviation"} :
                           other[s][b] = binned_statistic[s][b]

\* three calls whose orderings differ: two values in one bin, a third in another
C26_Witness ==
    /\ samples = << <<-1, -1>>, <<0, -1>>, <<-1, -1>> >>
    /\ values = <<Num(1), Infinity, Num(2)>>
    /\ binned_statistic.variance[<<0, 0>>] = Ratio(1, 4)


\* C27: an add_sample call that returns Ok for bin b leaves sum, mean, variance,
\* standard_deviation, min and max of every other bin as they were, and no
\* add_sample call changes the grid or the shape of an array.
C27_OtherBinsUntouched ==
    [][call'.op = "add_sample" =>
         /\ binned_statistic'.grid = binned_statistic.grid
         /\ \A s \in Stats : DOMAIN binned_statistic'[s] = DOMAIN binned_statistic[s]
         /\ result' = "Ok" =>
              LET b == index_of(binned_statistic.grid, call'.sample).ix
              IN  \A o \in Bins \ {b} :
                    \A s \in {"sum", "mean", "variance", "standard_deviation",
                              "min", "max"} :
                        binned_statistic'[s][o] = binned_statistic[s][o]]_vars

\* two bins hold a value each
C27_Witness ==
    /\ call.op = "add_sample"
    /\ result = "Ok"
    /\ \E b, o \in Bins :
         /\ b # o
         /\ binned_statistic.count[b] = 1
         /\ binned_statistic.count[o] = 1
         /\ binned_statistic.sum[b] # binned_statistic.sum[o]


\* C28: after any sequence of add_sample calls on a fresh BinnedStatistic the total
\* of count over all bins is the number of the calls that returned Ok, and after any
\* sequence of add_observation calls on a fresh Histogram the total of counts is the
\* number of the calls that returned Ok.
C28_TotalsAreOkCalls ==
    /\ Total(binned_statistic.count) = returned.add_sample
    /\ Total(histogram.counts) = returned.add_observation

\* one call returned Ok and the last call of each operation returned BinNotFound
C28_Witness ==
    /\ returned.add_sample + returned.add_observation = 1
    /\ result = "BinNotFound"
    /\ hresult = "BinNotFound"


\* C29: for all operands a and b, of all four tag combinations, a - b is a + (-b),
\* a + b is b + a and a * b is b * a (the payloads' own addition and multiplication
\* being commutative).
C29_SubIsAddOfNegAndCommutes ==
    /\ out.op = "sub" => out.v = add(lhs, neg(rhs))
    /\ out.op = "add" => out.v = add(rhs, lhs)
    /\ out.op = "mul" => out.v = mul(rhs, lhs)

C29_Witness ==
    /\ out.op = "sub"
    /\ lhs = Empty
    /\ rhs = Value(Num(1))
    /\ out.v = Value(Num(-1))

====
